---- MODULE Spec2Model ----
(***************************************************************************)
(* NinjaOne MCP server: the navigation state machine (src/index.ts), the   *)
(* domain handler registry (src/domains/index.ts), the credential resolver *)
(* and the lazily created API client (src/utils/client.ts), and the        *)
(* domain handlers' handleCall as far as the navigation layer sees them.   *)
(***************************************************************************)
EXTENDS Integers, Sequences, FiniteSets, TLC

(***************************************************************************)
(* Bounds of the model.                                                    *)
(***************************************************************************)
\* number of request slots (requests that can be in flight at once)
MaxInflight == 2
\* number of API client instances that can be constructed in one run
MaxClients == 2

Slots == 1..MaxInflight

\* JavaScript null / undefined
NULL == "<null>"

(***************************************************************************)
(* utils/types.ts                                                          *)
(***************************************************************************)
isDomainName_accepts_any(value) == value # NULL

isDomainName(value) == value \in {"devices", "organizations", "alerts", "tickets"}

isValidRegion_accepts_any(value) == TRUE

isValidRegion(value) == value \in {"us", "eu", "oc"}

getBaseUrlForRegion(region) ==
    CASE region = "eu" -> "https://eu.ninjarmm.com"
      [] region = "oc" -> "https://oc.ninjarmm.com"
      [] OTHER -> "https://app.ninjarmm.com"

(***************************************************************************)
(* domains/index.ts: the fixed enumeration and the import switch           *)
(***************************************************************************)
getAvailableDomains == <<"devices", "organizations", "alerts", "tickets">>

\* the cases of the switch in getDomainHandler; any other value throws
HasHandlerModule_loads_by_default(domain) == TRUE

HasHandlerModule(domain) == domain \in {"devices", "organizations", "alerts", "tickets"}

(***************************************************************************)
(* The tool names each domain handler declares (getTools of each handler). *)
(***************************************************************************)
devicesTools_declares_status ==
    << "ninjaone_devices_list", "ninjaone_devices_get", "ninjaone_devices_reboot",
       "ninjaone_devices_services", "ninjaone_devices_alerts", "ninjaone_status" >>

devicesTools ==
    << "ninjaone_devices_list", "ninjaone_devices_get", "ninjaone_devices_reboot",
       "ninjaone_devices_services", "ninjaone_devices_alerts", "ninjaone_devices_activities" >>

organizationsTools ==
    << "ninjaone_organizations_list", "ninjaone_organizations_get",
       "ninjaone_organizations_create", "ninjaone_organizations_locations",
       "ninjaone_organizations_devices" >>

alertsTools ==
    << "ninjaone_alerts_list", "ninjaone_alerts_reset", "ninjaone_alerts_reset_all",
       "ninjaone_alerts_summary" >>

ticketsTools ==
    << "ninjaone_tickets_list", "ninjaone_tickets_get", "ninjaone_tickets_create",
       "ninjaone_tickets_update", "ninjaone_tickets_add_comment", "ninjaone_tickets_comments" >>

\* handler.getTools() of the handler that getDomainHandler(domain) returns
getTools(domain) ==
    CASE domain = "devices" -> devicesTools
      [] domain = "organizations" -> organizationsTools
      [] domain = "alerts" -> alertsTools
      [] domain = "tickets" -> ticketsTools
      [] OTHER -> << >>

Range(seq) == { seq[i] : i \in 1..Len(seq) }

(***************************************************************************)
(* utils/client.ts: the credential resolver                                *)
(***************************************************************************)
\* String.prototype.toLowerCase on the region tokens the model feeds in
toLowerCase_identity(t) == t

toLowerCase(t) ==
    CASE t = "US" -> "us"
      [] t = "EU" -> "eu"
      [] t = "Eu" -> "eu"
      [] t = "OC" -> "oc"
      [] t = "XX" -> "xx"
      [] OTHER -> t

\* the value getCredentials returns for "no credentials" (null)
NoCredentials == [clientId |-> "", clientSecret |-> "", region |-> "", baseUrl |-> ""]

\* an environment variable that is unset or empty is the empty string here:
\* both are falsy in every test the code makes
getCredentials_ignores_secret(e) ==
    LET regionEnv == IF toLowerCase(e.NINJAONE_REGION) # "" THEN toLowerCase(e.NINJAONE_REGION) ELSE "us"
    IN  IF e.NINJAONE_CLIENT_ID = "" THEN NoCredentials
        ELSE [clientId |-> e.NINJAONE_CLIENT_ID, clientSecret |-> e.NINJAONE_CLIENT_SECRET,
              region |-> regionEnv, baseUrl |-> getBaseUrlForRegion(regionEnv)]

getCredentials(e) ==
    LET regionEnv == IF toLowerCase(e.NINJAONE_REGION) # "" THEN toLowerCase(e.NINJAONE_REGION) ELSE "us"
    IN  IF e.NINJAONE_CLIENT_ID = "" \/ e.NINJAONE_CLIENT_SECRET = "" THEN NoCredentials
        ELSE IF ~isValidRegion(regionEnv) THEN NoCredentials
        ELSE [clientId |-> e.NINJAONE_CLIENT_ID, clientSecret |-> e.NINJAONE_CLIENT_SECRET,
              region |-> regionEnv, baseUrl |-> getBaseUrlForRegion(regionEnv)]


(***************************************************************************)
(* index.ts: the meta tools and the results the CallTool handler builds    *)
(***************************************************************************)
navigateTool == "ninjaone_navigate"
backTool == "ninjaone_back"
statusTool == "ninjaone_status"

\* CallToolResult: isError absent is FALSE; kind, domain, tools and text carry
\* what the text of the result is built from
Result(kind, isError, domain, tools, text) ==
    [kind |-> kind, isError |-> isError, domain |-> domain, tools |-> tools, text |-> text]

NoResult == Result("none", FALSE, NULL, << >>, "")

\* getToolsForState once the handler of the current domain is at hand
getToolsForState_keeps_navigate(cd) ==
    IF cd = NULL THEN <<navigateTool, statusTool>>
    ELSE <<navigateTool, backTool, statusTool>> \o getTools(cd)

getToolsForState(cd) ==
    IF cd = NULL THEN <<navigateTool, statusTool>>
    ELSE <<backTool, statusTool>> \o getTools(cd)

\* domainTools.some((t) => t.name === name)
toolExists_any_domain(domain, name) ==
    \E d \in Range(getAvailableDomains) : name \in Range(getTools(d))

toolExists(domain, name) == name \in Range(getTools(domain))

InvalidDomainResult(domain) == Result("InvalidDomain", TRUE, NULL, getAvailableDomains, domain)

NoCredentialsResult == Result("NoCredentialsConfigured", TRUE, NULL, << >>, "")

NavigatedResult(domain) == Result("Navigated", FALSE, domain, getTools(domain), "")

BackResult(previousDomain) ==
    Result("Back", FALSE, IF previousDomain # NULL THEN previousDomain ELSE "root",
           getAvailableDomains, "")

StatusResult(cd, creds) ==
    Result("Status", FALSE, cd, getAvailableDomains,
           IF creds # NoCredentials THEN creds.baseUrl ELSE "NOT CONFIGURED")

UnknownToolResult(cd, name) == Result("UnknownTool", TRUE, cd, << >>, name)

\* the catch block: { content: [`Error: ${message}`], isError: true }
CaughtResult_no_flag(message) == Result("Error", FALSE, NULL, << >>, message)

CaughtResult(message) == Result("Error", TRUE, NULL, << >>, message)

\* ListTools: { tools }
ToolsResult(tools) == Result("Tools", FALSE, NULL, tools, "")

\* a rejection of the request handler itself, handed to the transport
EscapedException(message) == Result("Exception", TRUE, NULL, << >>, message)

UnknownDomainMessage == "Unknown domain"
ImportFailedMessage == "Cannot find module"
NoClientCredentialsMessage == "No API credentials provided"
RemoteApiMessage == "remote API error"
UndefinedArgsMessage == "Cannot read properties of undefined"

(***************************************************************************)
(* Requests.  A request is received, runs to its first await, and is       *)
(* resumed once per await until it completes with a response.              *)
(***************************************************************************)
NoArgs == [defined |-> FALSE, domain |-> NULL, device_id |-> 0, organization_id |-> 0]

NavigateArgs(domain) == [defined |-> TRUE, domain |-> domain, device_id |-> 0, organization_id |-> 0]

ToolArgs(device_id, organization_id) ==
    [defined |-> TRUE, domain |-> NULL, device_id |-> device_id, organization_id |-> organization_id]

\* no environment variable set
NoEnv == [NINJAONE_CLIENT_ID |-> "", NINJAONE_CLIENT_SECRET |-> "", NINJAONE_REGION |-> ""]

NoCall == [name |-> "", args |-> NoArgs]

\* no credential header on the HTTP request
NoHeaders == [clientId |-> "", clientSecret |-> "", region |-> ""]

\* no call was made before this one
NoPrev == [op |-> "none", env0 |-> NoEnv, creds |-> NoCredentials, client |-> 0]

IdleReq ==
    [pc |-> "idle", op |-> "none", name |-> "", args |-> NoArgs, start |-> NULL,
     env0 |-> NoEnv, afterThrow |-> FALSE, dom |-> NULL, hit |-> FALSE, creds |-> NoCredentials, client |-> 0,
     calls |-> 0, hcall |-> NoCall, hout |-> NoResult, api |-> << >>, resp |-> NoResult,
     prev |-> NoPrev, seen |-> 0, path |-> "", headers |-> NoHeaders, ranIn |-> NULL]

VARIABLES
    currentDomain,   \* index.ts: let currentDomain
    domainCache,     \* domains/index.ts: the domains in the Map domainCache
    env,             \* process.env: the three NINJAONE_ variables
    isGatewayMode,   \* index.ts: AUTH_MODE === "gateway"
    _client,         \* utils/client.ts: 0 is null, else the instance's identity
    _credentials,    \* utils/client.ts: NoCredentials is null
    constructed,     \* how many NinjaOneClient instances were constructed
    reqs             \* the requests, per slot

vars == <<currentDomain, domainCache, env, isGatewayMode, _client, _credentials, constructed, reqs>>

(***************************************************************************)
(* Inputs: the environments and the requests the model feeds in.           *)
(***************************************************************************)
ClientIdInputs == {"", "a"}
SecretInputs == {"", "s"}
RegionInputs == {"", "EU", "xx"}

EnvInputs ==
    [NINJAONE_CLIENT_ID : ClientIdInputs, NINJAONE_CLIENT_SECRET : SecretInputs,
     NINJAONE_REGION : RegionInputs]

\* NULL: the domain property is missing
DomainInputs == {"devices", "organizations", "alerts", "tickets", "billing", "Devices", NULL}

NavigateInputs == { NavigateArgs(d) : d \in DomainInputs } \cup {NoArgs}

DispatchInputs ==
    { <<"ninjaone_devices_list", ToolArgs(0, 0)>>,
      <<"ninjaone_organizations_list", ToolArgs(0, 0)>>,
      <<"ninjaone_tickets_get", ToolArgs(0, 0)>>,
      <<"ninjaone_tickets_get", NoArgs>>,
      <<"ninjaone_unknown_tool", ToolArgs(0, 0)>> }
    \cup { <<"ninjaone_alerts_reset_all", ToolArgs(d, o)>> : d \in {0, 7}, o \in {0, 3} }

Init ==
    /\ currentDomain = NULL
    /\ domainCache = {}
    /\ env \in EnvInputs
    /\ isGatewayMode \in BOOLEAN
    /\ _client = 0
    /\ _credentials = NoCredentials
    /\ constructed = 0
    /\ reqs = [s \in Slots |-> IdleReq]

\* a slot is free when it holds no request or a completed one, or an /mcp
\* request that the HTTP transport has yet to hand to the server
Free(s) == reqs[s].pc \in {"idle", "done", "forwarded"}

\* serialized transport: one request is processed to completion before the
\* next is accepted
Serial(s) == s = 1 /\ \A t \in Slots : Free(t)

\* start, env0 and afterThrow record what the request was received in: the
\* navigation state, the environment, and whether the request before it
\* ended with its handler's handleCall failing; path and headers are those
\* of the HTTP request that carried it, if one did
NewReq(s, op, name, args) ==
    [IdleReq EXCEPT !.op = op, !.name = name, !.args = args, !.start = currentDomain, !.env0 = env,
                    !.afterThrow = (reqs[s].pc = "done" /\ reqs[s].hout.kind = "Throw"),
                    !.path = IF reqs[s].pc = "forwarded" THEN reqs[s].path ELSE "",
                    !.headers = IF reqs[s].pc = "forwarded" THEN reqs[s].headers ELSE NoHeaders]

Complete(r, resp) == [r EXCEPT !.pc = "done", !.resp = resp]

\* domainCache.set(domain, handler): the handler is the one the domain's
\* module exports, so the Map is known by its keys
CacheSet_single_entry(domain) == {domain}

CacheSet(domain) == domainCache \cup {domain}

\* getDomainHandler up to its first await: a cache hit, an import, or the
\* default case of the switch
BeginGetDomainHandler(r, domain, pc) ==
    IF domain \in domainCache THEN [r EXCEPT !.pc = pc, !.dom = domain, !.hit = TRUE]
    ELSE IF HasHandlerModule(domain) THEN [r EXCEPT !.pc = pc, !.dom = domain, !.hit = FALSE]
    ELSE [r EXCEPT !.pc = "threw", !.dom = domain, !.hit = FALSE]

\* getClient: the test that invalidates the cached client
CredentialsChanged_ignores_secret(creds) ==
    /\ _client # 0
    /\ _credentials # NoCredentials
    /\ \/ creds.clientId # _credentials.clientId
       \/ creds.region # _credentials.region

CredentialsChanged(creds) ==
    /\ _client # 0
    /\ _credentials # NoCredentials
    /\ \/ creds.clientId # _credentials.clientId
       \/ creds.clientSecret # _credentials.clientSecret
       \/ creds.region # _credentials.region

(***************************************************************************)
(* index.ts: ListTools                                                     *)
(***************************************************************************)
ListTools(s) ==
    /\ Free(s)
    /\ LET r == NewReq(s, "list", "", NoArgs)
       IN  IF currentDomain = NULL
           THEN reqs' = [reqs EXCEPT ![s] = Complete(r, ToolsResult(getToolsForState(NULL)))]
           ELSE LET b == BeginGetDomainHandler(r, currentDomain, "list_handler")
                IN  reqs' = [reqs EXCEPT ![s] =
                                IF b.pc = "threw"
                                THEN Complete(b, EscapedException(UnknownDomainMessage))
                                ELSE b]
    /\ UNCHANGED <<currentDomain, domainCache, env, isGatewayMode, _client, _credentials, constructed>>

\* getDomainHandler returns: the handler is cached (if it was imported) and
\* the tools of the state are returned
ListToolsResume(s) ==
    /\ reqs[s].pc = "list_handler"
    /\ domainCache' = IF reqs[s].hit THEN domainCache ELSE CacheSet(reqs[s].dom)
    /\ reqs' = [reqs EXCEPT ![s] = Complete(@, ToolsResult(getToolsForState(reqs[s].dom)))]
    /\ UNCHANGED <<currentDomain, env, isGatewayMode, _client, _credentials, constructed>>

(***************************************************************************)
(* index.ts: CallTool, the three meta tools                                *)
(***************************************************************************)
Navigate_forgets_assignment(s, args) ==
    /\ Free(s)
    /\ LET r == NewReq(s, "call", navigateTool, args)
           domain == args.domain
       IN  IF ~args.defined
           THEN /\ reqs' = [reqs EXCEPT ![s] = Complete(r, CaughtResult(UndefinedArgsMessage))]
                /\ UNCHANGED currentDomain
           ELSE IF ~isDomainName(domain)
           THEN /\ reqs' = [reqs EXCEPT ![s] = Complete(r, InvalidDomainResult(domain))]
                /\ UNCHANGED currentDomain
           ELSE IF getCredentials(env) = NoCredentials
           THEN /\ reqs' = [reqs EXCEPT ![s] = Complete(r, NoCredentialsResult)]
                /\ UNCHANGED currentDomain
           ELSE /\ UNCHANGED currentDomain
                /\ LET b == BeginGetDomainHandler(r, domain, "navigate_handler")
                   IN  reqs' = [reqs EXCEPT ![s] =
                                   IF b.pc = "threw"
                                   THEN Complete(b, CaughtResult(UnknownDomainMessage))
                                   ELSE b]
    /\ UNCHANGED <<domainCache, env, isGatewayMode, _client, _credentials, constructed>>

Navigate(s, args) ==
    /\ Free(s)
    /\ LET r == NewReq(s, "call", navigateTool, args)
           domain == args.domain
       IN  IF ~args.defined
           THEN /\ reqs' = [reqs EXCEPT ![s] = Complete(r, CaughtResult(UndefinedArgsMessage))]
                /\ UNCHANGED currentDomain
           ELSE IF ~isDomainName(domain)
           THEN /\ reqs' = [reqs EXCEPT ![s] = Complete(r, InvalidDomainResult(domain))]
                /\ UNCHANGED currentDomain
           ELSE IF getCredentials(env) = NoCredentials
           THEN /\ reqs' = [reqs EXCEPT ![s] = Complete(r, NoCredentialsResult)]
                /\ UNCHANGED currentDomain
           ELSE /\ currentDomain' = domain
                /\ LET b == BeginGetDomainHandler(r, domain, "navigate_handler")
                   IN  reqs' = [reqs EXCEPT ![s] =
                                   IF b.pc = "threw"
                                   THEN Complete(b, CaughtResult(UnknownDomainMessage))
                                   ELSE b]
    /\ UNCHANGED <<domainCache, env, isGatewayMode, _client, _credentials, constructed>>

NavigateResume(s) ==
    /\ reqs[s].pc = "navigate_handler"
    /\ domainCache' = IF reqs[s].hit THEN domainCache ELSE CacheSet(reqs[s].dom)
    /\ reqs' = [reqs EXCEPT ![s] = Complete(@, NavigatedResult(reqs[s].dom))]
    /\ UNCHANGED <<currentDomain, env, isGatewayMode, _client, _credentials, constructed>>

Back_keeps_domain(s) ==
    /\ Free(s)
    /\ LET r == NewReq(s, "call", backTool, NoArgs)
           previousDomain == currentDomain
       IN  reqs' = [reqs EXCEPT ![s] = Complete(r, BackResult(previousDomain))]
    /\ UNCHANGED <<currentDomain, domainCache, env, isGatewayMode, _client, _credentials, constructed>>

Back_sometimes_keeps_domain(s) ==
    /\ Free(s)
    /\ LET r == NewReq(s, "call", backTool, NoArgs)
           previousDomain == currentDomain
       IN  reqs' = [reqs EXCEPT ![s] = Complete(r, BackResult(previousDomain))]
    /\ currentDomain' \in {NULL, currentDomain}
    /\ UNCHANGED <<domainCache, env, isGatewayMode, _client, _credentials, constructed>>

Back(s) ==
    /\ Free(s)
    /\ LET r == NewReq(s, "call", backTool, NoArgs)
           previousDomain == currentDomain
       IN  reqs' = [reqs EXCEPT ![s] = Complete(r, BackResult(previousDomain))]
    /\ currentDomain' = NULL
    /\ UNCHANGED <<domainCache, env, isGatewayMode, _client, _credentials, constructed>>

Status_builds_client(s) ==
    /\ Free(s)
    /\ constructed < MaxClients
    /\ LET r == NewReq(s, "call", statusTool, NoArgs)
           creds == getCredentials(env)
       IN  /\ reqs' = [reqs EXCEPT ![s] = Complete(r, StatusResult(currentDomain, creds))]
           /\ IF creds # NoCredentials /\ _client = 0
              THEN /\ _client' = constructed + 1
                   /\ constructed' = constructed + 1
                   /\ _credentials' = creds
              ELSE UNCHANGED <<_client, _credentials, constructed>>
    /\ UNCHANGED <<currentDomain, domainCache, env, isGatewayMode>>

Status(s) ==
    /\ Free(s)
    /\ LET r == NewReq(s, "call", statusTool, NoArgs)
           creds == getCredentials(env)
       IN  reqs' = [reqs EXCEPT ![s] = Complete(r, StatusResult(currentDomain, creds))]
    /\ UNCHANGED <<currentDomain, domainCache, env, isGatewayMode, _client, _credentials, constructed>>

(***************************************************************************)
(* The domain handlers' handleCall, as the navigation layer sees it:       *)
(* await getClient(), then the switch on the tool name, which either       *)
(* rejects the arguments or makes one call of the remote API.              *)
(***************************************************************************)
HandlerResult(domain, isError, text) == Result("HandlerResult", isError, domain, << >>, text)

HandlerThrow(domain, message) == Result("Throw", TRUE, domain, << >>, message)

\* what the switch does with a tool name and defined arguments
HandlerPlan_organization_first(domain, toolName, args) ==
    IF toolName \notin Range(getTools(domain))
    THEN [step |-> "return", isError |-> TRUE, text |-> "Unknown tool of the domain"]
    ELSE IF toolName = "ninjaone_alerts_reset_all"
    THEN IF args.device_id = 0 /\ args.organization_id = 0
         THEN [step |-> "return", isError |-> TRUE,
               text |-> "Error: Must specify either device_id or organization_id to reset alerts"]
         ELSE IF args.organization_id # 0
         THEN [step |-> "api", isError |-> FALSE, text |-> "alerts.resetByOrganization"]
         ELSE [step |-> "api", isError |-> FALSE, text |-> "alerts.resetByDevice"]
    ELSE [step |-> "api", isError |-> FALSE, text |-> toolName]

HandlerPlan(domain, toolName, args) ==
    IF toolName \notin Range(getTools(domain))
    THEN [step |-> "return", isError |-> TRUE, text |-> "Unknown tool of the domain"]
    ELSE IF toolName = "ninjaone_alerts_reset_all"
    THEN IF args.device_id = 0 /\ args.organization_id = 0
         THEN [step |-> "return", isError |-> TRUE,
               text |-> "Error: Must specify either device_id or organization_id to reset alerts"]
         ELSE IF args.device_id # 0
         THEN [step |-> "api", isError |-> FALSE, text |-> "alerts.resetByDevice"]
         ELSE [step |-> "api", isError |-> FALSE, text |-> "alerts.resetByOrganization"]
    ELSE [step |-> "api", isError |-> FALSE, text |-> toolName]

\* return result (index.ts hands the handler's result back as it is)
ReturnHandlerResult_clears_flag(result) == [result EXCEPT !.isError = FALSE]

ReturnHandlerResult(result) == result

(***************************************************************************)
(* index.ts: CallTool, any other tool name                                 *)
(***************************************************************************)
DomainTool(s, name, args) ==
    /\ Free(s)
    /\ name \notin {navigateTool, backTool, statusTool}
    /\ LET r == NewReq(s, "call", name, args)
       IN  IF currentDomain # NULL
           THEN LET b == BeginGetDomainHandler(r, currentDomain, "dispatch_handler")
                IN  reqs' = [reqs EXCEPT ![s] =
                                IF b.pc = "threw"
                                THEN Complete(b, CaughtResult(UnknownDomainMessage))
                                ELSE b]
           ELSE reqs' = [reqs EXCEPT ![s] = Complete(r, UnknownToolResult(currentDomain, name))]
    /\ UNCHANGED <<currentDomain, domainCache, env, isGatewayMode, _client, _credentials, constructed>>

\* getDomainHandler returns; toolExists decides between handler.handleCall,
\* which runs getClient up to its first await, and "Tool not found"
DomainToolResume(s) ==
    /\ reqs[s].pc = "dispatch_handler"
    /\ domainCache' = IF reqs[s].hit THEN domainCache ELSE CacheSet(reqs[s].dom)
    /\ LET r == reqs[s]
       IN  IF toolExists(r.dom, r.name)
           THEN LET called == [r EXCEPT !.calls = @ + 1, !.hcall = [name |-> r.name, args |-> r.args]]
                    creds == getCredentials(env)
                    kept == IF CredentialsChanged(creds) THEN 0 ELSE _client
                IN  IF creds = NoCredentials
                    THEN /\ reqs' = [reqs EXCEPT ![s] =
                                 Complete([called EXCEPT !.hout = HandlerThrow(r.dom, NoClientCredentialsMessage)],
                                          CaughtResult(NoClientCredentialsMessage))]
                         /\ UNCHANGED _client
                    ELSE /\ _client' = kept
                         /\ reqs' = [reqs EXCEPT ![s] =
                                 IF kept = 0
                                 THEN [called EXCEPT !.pc = "client_import", !.creds = creds]
                                 ELSE [called EXCEPT !.pc = "client_ready", !.creds = creds, !.client = kept]]
           ELSE /\ reqs' = [reqs EXCEPT ![s] = Complete(r, UnknownToolResult(currentDomain, r.name))]
                /\ UNCHANGED _client
    /\ UNCHANGED <<currentDomain, env, isGatewayMode, _credentials, constructed>>

(***************************************************************************)
(* utils/client.ts: getClient after the import of the client library       *)
(***************************************************************************)
ClientConstructed_keeps_first(s) ==
    /\ reqs[s].pc = "client_import"
    /\ constructed < MaxClients
    /\ IF _client # 0
       THEN /\ reqs' = [reqs EXCEPT ![s] = [@ EXCEPT !.pc = "client_ready", !.client = _client]]
            /\ UNCHANGED <<_client, _credentials, constructed>>
       ELSE /\ constructed' = constructed + 1
            /\ _client' = constructed + 1
            /\ _credentials' = reqs[s].creds
            /\ reqs' = [reqs EXCEPT ![s] = [@ EXCEPT !.pc = "client_ready", !.client = constructed + 1]]
    /\ UNCHANGED <<currentDomain, domainCache, env, isGatewayMode>>

ClientConstructed(s) ==
    /\ reqs[s].pc = "client_import"
    /\ constructed < MaxClients
    /\ constructed' = constructed + 1
    /\ _client' = constructed + 1
    /\ _credentials' = reqs[s].creds
    /\ reqs' = [reqs EXCEPT ![s] = [@ EXCEPT !.pc = "client_ready", !.client = constructed + 1]]
    /\ UNCHANGED <<currentDomain, domainCache, env, isGatewayMode>>

(***************************************************************************)
(* handleCall after await getClient(): the switch.  ranIn records the      *)
(* navigation state the switch runs in.                                    *)
(***************************************************************************)
HandlerRuns_checks_state(s) ==
    /\ reqs[s].pc = "client_ready"
    /\ LET r == [reqs[s] EXCEPT !.ranIn = currentDomain]
           plan == HandlerPlan(r.dom, r.hcall.name, r.hcall.args)
       IN  IF currentDomain # r.dom
           THEN reqs' = [reqs EXCEPT ![s] = Complete(r, UnknownToolResult(currentDomain, r.name))]
           ELSE IF ~r.hcall.args.defined
           THEN reqs' = [reqs EXCEPT ![s] =
                    Complete([r EXCEPT !.hout = HandlerThrow(r.dom, UndefinedArgsMessage)],
                             CaughtResult(UndefinedArgsMessage))]
           ELSE IF plan.step = "return"
           THEN LET result == HandlerResult(r.dom, plan.isError, plan.text)
                IN  reqs' = [reqs EXCEPT ![s] =
                        Complete([r EXCEPT !.hout = result], ReturnHandlerResult(result))]
           ELSE reqs' = [reqs EXCEPT ![s] = [r EXCEPT !.pc = "api_wait", !.api = Append(@, plan.text)]]
    /\ UNCHANGED <<currentDomain, domainCache, env, isGatewayMode, _client, _credentials, constructed>>

HandlerRuns(s) ==
    /\ reqs[s].pc = "client_ready"
    /\ LET r == [reqs[s] EXCEPT !.ranIn = currentDomain]
           plan == HandlerPlan(r.dom, r.hcall.name, r.hcall.args)
       IN  IF ~r.hcall.args.defined
           THEN reqs' = [reqs EXCEPT ![s] =
                    Complete([r EXCEPT !.hout = HandlerThrow(r.dom, UndefinedArgsMessage)],
                             CaughtResult(UndefinedArgsMessage))]
           ELSE IF plan.step = "return"
           THEN LET result == HandlerResult(r.dom, plan.isError, plan.text)
                IN  reqs' = [reqs EXCEPT ![s] =
                        Complete([r EXCEPT !.hout = result], ReturnHandlerResult(result))]
           ELSE reqs' = [reqs EXCEPT ![s] = [r EXCEPT !.pc = "api_wait", !.api = Append(@, plan.text)]]
    /\ UNCHANGED <<currentDomain, domainCache, env, isGatewayMode, _client, _credentials, constructed>>

\* the remote call answers
ApiReturns(s) ==
    /\ reqs[s].pc = "api_wait"
    /\ LET r == reqs[s]
           result == HandlerResult(r.dom, FALSE, r.api[Len(r.api)])
       IN  reqs' = [reqs EXCEPT ![s] = Complete([r EXCEPT !.hout = result], ReturnHandlerResult(result))]
    /\ UNCHANGED <<currentDomain, domainCache, env, isGatewayMode, _client, _credentials, constructed>>

\* the remote call fails: handleCall rejects and the catch block answers
ApiThrows(s) ==
    /\ reqs[s].pc = "api_wait"
    /\ LET r == reqs[s]
       IN  reqs' = [reqs EXCEPT ![s] =
               Complete([r EXCEPT !.hout = HandlerThrow(r.dom, RemoteApiMessage)],
                        CaughtResult(RemoteApiMessage))]
    /\ UNCHANGED <<currentDomain, domainCache, env, isGatewayMode, _client, _credentials, constructed>>

(***************************************************************************)
(* An import of a handler module fails (a deployment with a missing or     *)
(* broken domain module): getDomainHandler rejects.                        *)
(***************************************************************************)
ImportFails(s) ==
    /\ reqs[s].pc \in {"list_handler", "navigate_handler", "dispatch_handler"}
    /\ ~reqs[s].hit
    /\ reqs[s].dom \notin domainCache
    /\ reqs' = [reqs EXCEPT ![s] =
           IF reqs[s].pc = "list_handler"
           THEN Complete(@, EscapedException(ImportFailedMessage))
           ELSE Complete(@, CaughtResult(ImportFailedMessage))]
    /\ UNCHANGED <<currentDomain, domainCache, env, isGatewayMode, _client, _credentials, constructed>>

(***************************************************************************)
(* index.ts: an /mcp request in gateway mode writes the credential headers *)
(* to the environment; without both headers it is answered 401.            *)
(***************************************************************************)
GatewayRequest(clientId, clientSecret, region) ==
    /\ isGatewayMode
    /\ IF clientId = "" \/ clientSecret = ""
       THEN UNCHANGED env
       ELSE env' = [NINJAONE_CLIENT_ID |-> clientId, NINJAONE_CLIENT_SECRET |-> clientSecret,
                    NINJAONE_REGION |-> IF region # "" THEN region ELSE env.NINJAONE_REGION]
    /\ UNCHANGED <<currentDomain, domainCache, isGatewayMode, _client, _credentials, constructed, reqs>>

(***************************************************************************)
(* Specifications.  Spec: a serialized transport and a deployment whose    *)
(* handler modules import.  SpecImportFails: the same, and imports of      *)
(* handler modules may fail.                                               *)
(***************************************************************************)
Next ==
    \/ \E s \in Slots : Serial(s) /\ ListTools(s)
    \/ \E s \in Slots : ListToolsResume(s)
    \/ \E s \in Slots, a \in NavigateInputs : Serial(s) /\ Navigate(s, a)
    \/ \E s \in Slots : NavigateResume(s)
    \/ \E s \in Slots : Serial(s) /\ Back(s)
    \/ \E s \in Slots : Serial(s) /\ Status(s)
    \/ \E s \in Slots, i \in DispatchInputs : Serial(s) /\ DomainTool(s, i[1], i[2])
    \/ \E s \in Slots : DomainToolResume(s)
    \/ \E s \in Slots : ClientConstructed(s)
    \/ \E s \in Slots : HandlerRuns(s)
    \/ \E s \in Slots : ApiReturns(s)
    \/ \E s \in Slots : ApiThrows(s)
    \/ \E c \in ClientIdInputs, k \in SecretInputs, g \in RegionInputs :
          (\A t \in Slots : Free(t)) /\ GatewayRequest(c, k, g)

Spec == Init /\ [][Next]_vars

NextImportFails ==
    \/ Next
    \/ \E s \in Slots : ImportFails(s)

SpecImportFails == Init /\ [][NextImportFails]_vars

(***************************************************************************)
(* index.ts: startHttpTransport.  An HTTP request is answered by the       *)
(* request listener (/health, 401) or handed to the transport, which       *)
(* gives its message to the server once it has read the body: requests     *)
(* overlap.                                                                *)
(***************************************************************************)
HeaderInputs ==
    { NoHeaders,
      [clientId |-> "a", clientSecret |-> "", region |-> "EU"],
      [clientId |-> "a", clientSecret |-> "s", region |-> ""],
      [clientId |-> "b", clientSecret |-> "t", region |-> "EU"] }

HttpEnvInputs ==
    { NoEnv, [NINJAONE_CLIENT_ID |-> "a", NINJAONE_CLIENT_SECRET |-> "s", NINJAONE_REGION |-> ""] }

\* res.writeHead(statusCode); res.end(JSON.stringify({ status | error: text }))
HttpResponse(statusCode, text) ==
    [kind |-> "Http", isError |-> statusCode # 200, domain |-> NULL, tools |-> << >>, text |-> text,
     statusCode |-> statusCode]

InitHttp ==
    /\ currentDomain = NULL
    /\ domainCache = {}
    /\ env \in HttpEnvInputs
    /\ isGatewayMode \in BOOLEAN
    /\ _client = 0
    /\ _credentials = NoCredentials
    /\ constructed = 0
    /\ reqs = [s \in Slots |-> IdleReq]

\* a slot that holds no request or a completed one
Vacant(s) == reqs[s].pc \in {"idle", "done"}

HttpRequest(path, headers) == [IdleReq EXCEPT !.op = "http", !.path = path, !.headers = headers, !.env0 = env]

\* GET /health
HttpHealth_always_ok(s) ==
    /\ Vacant(s)
    /\ reqs' = [reqs EXCEPT ![s] = Complete(HttpRequest("/health", NoHeaders), HttpResponse(200, "ok"))]
    /\ UNCHANGED <<currentDomain, domainCache, env, isGatewayMode, _client, _credentials, constructed>>

HttpHealth(s) ==
    /\ Vacant(s)
    /\ LET creds == getCredentials(env)
       IN  reqs' = [reqs EXCEPT ![s] =
               Complete(HttpRequest("/health", NoHeaders),
                        IF creds # NoCredentials THEN HttpResponse(200, "ok")
                        ELSE HttpResponse(503, "degraded"))]
    /\ UNCHANGED <<currentDomain, domainCache, env, isGatewayMode, _client, _credentials, constructed>>

\* /mcp: the header check and the assignments to process.env of gateway
\* mode, then transport.handleRequest
HttpMcp_writes_before_check(s, headers) ==
    /\ Vacant(s)
    /\ IF isGatewayMode
       THEN /\ env' = [NINJAONE_CLIENT_ID |-> headers.clientId,
                       NINJAONE_CLIENT_SECRET |-> headers.clientSecret,
                       NINJAONE_REGION |-> IF headers.region # "" THEN headers.region
                                           ELSE env.NINJAONE_REGION]
            /\ IF headers.clientId = "" \/ headers.clientSecret = ""
               THEN reqs' = [reqs EXCEPT ![s] =
                        Complete(HttpRequest("/mcp", headers), HttpResponse(401, "Missing credentials"))]
               ELSE reqs' = [reqs EXCEPT ![s] = [HttpRequest("/mcp", headers) EXCEPT !.pc = "forwarded"]]
       ELSE /\ reqs' = [reqs EXCEPT ![s] = [HttpRequest("/mcp", headers) EXCEPT !.pc = "forwarded"]]
            /\ UNCHANGED env
    /\ UNCHANGED <<currentDomain, domainCache, isGatewayMode, _client, _credentials, constructed>>

HttpMcp(s, headers) ==
    /\ Vacant(s)
    /\ IF isGatewayMode
       THEN IF headers.clientId = "" \/ headers.clientSecret = ""
            THEN /\ reqs' = [reqs EXCEPT ![s] =
                         Complete(HttpRequest("/mcp", headers), HttpResponse(401, "Missing credentials"))]
                 /\ UNCHANGED env
            ELSE /\ env' = [NINJAONE_CLIENT_ID |-> headers.clientId,
                            NINJAONE_CLIENT_SECRET |-> headers.clientSecret,
                            NINJAONE_REGION |-> IF headers.region # "" THEN headers.region
                                                ELSE env.NINJAONE_REGION]
                 /\ reqs' = [reqs EXCEPT ![s] = [HttpRequest("/mcp", headers) EXCEPT !.pc = "forwarded"]]
       ELSE /\ reqs' = [reqs EXCEPT ![s] = [HttpRequest("/mcp", headers) EXCEPT !.pc = "forwarded"]]
            /\ UNCHANGED env
    /\ UNCHANGED <<currentDomain, domainCache, isGatewayMode, _client, _credentials, constructed>>

\* the transport hands the message of a forwarded request to the server
Forwarded(s) == reqs[s].pc = "forwarded"

\* SpecHttp: the request listener in both auth modes, with status and
\* list-tools messages
NextHttp ==
    \/ \E s \in Slots : HttpHealth(s)
    \/ \E s \in Slots, h \in HeaderInputs : HttpMcp(s, h)
    \/ \E s \in Slots : Forwarded(s) /\ ListTools(s)
    \/ \E s \in Slots : Forwarded(s) /\ Status(s)

SpecHttp == InitHttp /\ [][NextHttp]_vars

(***************************************************************************)
(* Requests that overlap: the server starts the handler of a request as    *)
(* soon as the transport delivers it, while handlers of earlier requests   *)
(* are suspended in an await.                                              *)
(***************************************************************************)
RaceEnv == [NINJAONE_CLIENT_ID |-> "a", NINJAONE_CLIENT_SECRET |-> "s", NINJAONE_REGION |-> ""]

RaceNavigateInputs == { NavigateArgs("devices"), NavigateArgs("alerts") }

RaceDispatchInputs == { <<"ninjaone_devices_list", ToolArgs(0, 0)>> }

InitRace ==
    /\ currentDomain = NULL
    /\ domainCache = {}
    /\ env = RaceEnv
    /\ isGatewayMode = FALSE
    /\ _client = 0
    /\ _credentials = NoCredentials
    /\ constructed = 0
    /\ reqs = [s \in Slots |-> IdleReq]

NextRace ==
    \/ \E s \in Slots, a \in RaceNavigateInputs : Navigate(s, a)
    \/ \E s \in Slots : NavigateResume(s)
    \/ \E s \in Slots : Back(s)
    \/ \E s \in Slots, i \in RaceDispatchInputs : DomainTool(s, i[1], i[2])
    \/ \E s \in Slots : DomainToolResume(s)
    \/ \E s \in Slots : ClientConstructed(s)
    \/ \E s \in Slots : HandlerRuns(s)
    \/ \E s \in Slots : ApiReturns(s)

SpecRace == InitRace /\ [][NextRace]_vars

(***************************************************************************)
(* Gateway mode with tool calls: each /mcp request carries its credentials *)
(* in its headers, the listener writes them to process.env and hands the   *)
(* request to the transport, and the tool call it carries is processed     *)
(* once its body has been read, while other requests arrive.               *)
(***************************************************************************)
GatewayHeaderInputs ==
    { [clientId |-> "a", clientSecret |-> "s", region |-> "EU"],
      [clientId |-> "b", clientSecret |-> "t", region |-> ""] }

GatewayNavigateInputs == { NavigateArgs("devices") }

GatewayDispatchInputs == { <<"ninjaone_devices_list", ToolArgs(0, 0)>> }

InitGateway ==
    /\ currentDomain = NULL
    /\ domainCache = {}
    /\ env = NoEnv
    /\ isGatewayMode = TRUE
    /\ _client = 0
    /\ _credentials = NoCredentials
    /\ constructed = 0
    /\ reqs = [s \in Slots |-> IdleReq]

NextGateway ==
    \/ \E s \in Slots, h \in GatewayHeaderInputs : HttpMcp(s, h)
    \/ \E s \in Slots, a \in GatewayNavigateInputs : Forwarded(s) /\ Navigate(s, a)
    \/ \E s \in Slots : NavigateResume(s)
    \/ \E s \in Slots, i \in GatewayDispatchInputs : Forwarded(s) /\ DomainTool(s, i[1], i[2])
    \/ \E s \in Slots : DomainToolResume(s)
    \/ \E s \in Slots : ClientConstructed(s)
    \/ \E s \in Slots : HandlerRuns(s)
    \/ \E s \in Slots : ApiReturns(s)

SpecGateway == InitGateway /\ [][NextGateway]_vars

(***************************************************************************)
(* utils/client.ts called directly, as client.test.ts does: getClient(),   *)
(* clearClient() and assignments to process.env between the calls.         *)
(***************************************************************************)
ClientEnvInputs ==
    [NINJAONE_CLIENT_ID : {"", "a", "b"}, NINJAONE_CLIENT_SECRET : {"s", "t"},
     NINJAONE_REGION : {"", "EU", "xx"}]

\* the outcome of a call: a promise fulfilled with r.client, a rejection, or
\* the return of a void function
ClientResult == Result("Client", FALSE, NULL, << >>, "")

Rejection(message) == Result("Throw", TRUE, NULL, << >>, message)

VoidResult == Result("Void", FALSE, NULL, << >>, "")

\* seen records how many clients had been constructed when the call was
\* made; prev records the call completed just before this one when the
\* calls are made one after the other (no other slot has been in use)
NewCall(s, op) ==
    [NewReq(s, op, op, NoArgs) EXCEPT
        !.seen = constructed,
        !.prev = IF /\ reqs[s].pc = "done"
                    /\ reqs[s].op \in {"getClient", "clearClient"}
                    /\ \A t \in Slots \ {s} : reqs[t].pc = "idle"
                 THEN [op |-> reqs[s].op, env0 |-> NoEnv, creds |-> reqs[s].creds, client |-> reqs[s].client]
                 ELSE NoPrev]

InitClient ==
    /\ currentDomain = NULL
    /\ domainCache = {}
    /\ env \in ClientEnvInputs
    /\ isGatewayMode = FALSE
    /\ _client = 0
    /\ _credentials = NoCredentials
    /\ constructed = 0
    /\ reqs = [s \in Slots |-> IdleReq]

\* process.env.NINJAONE_... = ... between two calls
SetEnv(e) ==
    /\ env' = e
    /\ UNCHANGED <<currentDomain, domainCache, isGatewayMode, _client, _credentials, constructed, reqs>>

\* getClient up to its await, or to its return when the cached client is kept
GetClient_clears_on_rejection(s) ==
    /\ Free(s)
    /\ LET r == NewCall(s, "getClient")
           creds == getCredentials(env)
           kept == IF CredentialsChanged(creds) THEN 0 ELSE _client
       IN  IF creds = NoCredentials
           THEN /\ reqs' = [reqs EXCEPT ![s] = Complete(r, Rejection(NoClientCredentialsMessage))]
                /\ _client' = 0
           ELSE /\ _client' = kept
                /\ reqs' = [reqs EXCEPT ![s] =
                        IF kept = 0
                        THEN [r EXCEPT !.pc = "client_import", !.creds = creds]
                        ELSE [r EXCEPT !.pc = "client_ready", !.creds = creds, !.client = kept]]
    /\ UNCHANGED <<currentDomain, domainCache, env, isGatewayMode, _credentials, constructed>>

GetClient(s) ==
    /\ Free(s)
    /\ LET r == NewCall(s, "getClient")
           creds == getCredentials(env)
           kept == IF CredentialsChanged(creds) THEN 0 ELSE _client
       IN  IF creds = NoCredentials
           THEN /\ reqs' = [reqs EXCEPT ![s] = Complete(r, Rejection(NoClientCredentialsMessage))]
                /\ UNCHANGED _client
           ELSE /\ _client' = kept
                /\ reqs' = [reqs EXCEPT ![s] =
                        IF kept = 0
                        THEN [r EXCEPT !.pc = "client_import", !.creds = creds]
                        ELSE [r EXCEPT !.pc = "client_ready", !.creds = creds, !.client = kept]]
    /\ UNCHANGED <<currentDomain, domainCache, env, isGatewayMode, _credentials, constructed>>

\* the caller's await getClient() resumes with the returned client
GetClientReturns(s) ==
    /\ reqs[s].pc = "client_ready"
    /\ reqs[s].op = "getClient"
    /\ reqs' = [reqs EXCEPT ![s] = Complete(@, ClientResult)]
    /\ UNCHANGED <<currentDomain, domainCache, env, isGatewayMode, _client, _credentials, constructed>>

\* clearClient; creds and client record what the slot held
ClearClient_keeps_client(s) ==
    /\ Free(s)
    /\ _credentials' = NoCredentials
    /\ reqs' = [reqs EXCEPT ![s] =
            Complete([NewCall(s, "clearClient") EXCEPT !.creds = _credentials, !.client = _client], VoidResult)]
    /\ UNCHANGED <<currentDomain, domainCache, env, isGatewayMode, _client, constructed>>

ClearClient(s) ==
    /\ Free(s)
    /\ _client' = 0
    /\ _credentials' = NoCredentials
    /\ reqs' = [reqs EXCEPT ![s] =
            Complete([NewCall(s, "clearClient") EXCEPT !.creds = _credentials, !.client = _client], VoidResult)]
    /\ UNCHANGED <<currentDomain, domainCache, env, isGatewayMode, constructed>>

\* SpecClient: the calls are made one after the other
NextClient ==
    \/ \E s \in Slots : Serial(s) /\ GetClient(s)
    \/ \E s \in Slots : ClientConstructed(s)
    \/ \E s \in Slots : GetClientReturns(s)
    \/ \E s \in Slots : Serial(s) /\ ClearClient(s)
    \/ \E e \in ClientEnvInputs : (\A t \in Slots : Free(t)) /\ SetEnv(e)

SpecClient == InitClient /\ [][NextClient]_vars

\* SpecClientRace: calls overlap, process.env is assigned at any moment
RaceClientEnvInputs ==
    { [NINJAONE_CLIENT_ID |-> "a", NINJAONE_CLIENT_SECRET |-> "s", NINJAONE_REGION |-> ""],
      [NINJAONE_CLIENT_ID |-> "a", NINJAONE_CLIENT_SECRET |-> "t", NINJAONE_REGION |-> ""] }

InitClientRace ==
    /\ currentDomain = NULL
    /\ domainCache = {}
    /\ env \in RaceClientEnvInputs
    /\ isGatewayMode = FALSE
    /\ _client = 0
    /\ _credentials = NoCredentials
    /\ constructed = 0
    /\ reqs = [s \in Slots |-> IdleReq]

NextClientRace ==
    \/ \E s \in Slots : GetClient(s)
    \/ \E s \in Slots : ClientConstructed(s)
    \/ \E s \in Slots : GetClientReturns(s)
    \/ \E s \in Slots : ClearClient(s)
    \/ \E e \in RaceClientEnvInputs : SetEnv(e)

SpecClientRace == InitClientRace /\ [][NextClientRace]_vars

(***************************************************************************)
(* utils/client.ts: getCredentials called directly, as client.test.ts      *)
(* does, with process.env assigned between the calls.                      *)
(***************************************************************************)
RegionTokens == {"", "us", "US", "eu", "EU", "Eu", "oc", "OC", "xx", "XX"}

ResolverEnvInputs ==
    [NINJAONE_CLIENT_ID : {"", "a"}, NINJAONE_CLIENT_SECRET : {"", "s"},
     NINJAONE_REGION : RegionTokens]

\* getCredentials returns a value, null included: it never throws
CredentialsResult == Result("Credentials", FALSE, NULL, << >>, "")

InitResolver ==
    /\ currentDomain = NULL
    /\ domainCache = {}
    /\ env \in ResolverEnvInputs
    /\ isGatewayMode = FALSE
    /\ _client = 0
    /\ _credentials = NoCredentials
    /\ constructed = 0
    /\ reqs = [s \in Slots |-> IdleReq]

\* creds is the value returned; prev is the call before it, with the
\* environment it read and the value it returned
GetCredentials(s) ==
    /\ Free(s)
    /\ reqs' = [reqs EXCEPT ![s] =
            Complete([NewReq(s, "getCredentials", "getCredentials", NoArgs) EXCEPT
                         !.creds = getCredentials(env),
                         !.prev = IF reqs[s].pc = "done"
                                  THEN [op |-> reqs[s].op, env0 |-> reqs[s].env0,
                                        creds |-> reqs[s].creds, client |-> 0]
                                  ELSE NoPrev],
                     CredentialsResult)]
    /\ UNCHANGED <<currentDomain, domainCache, env, isGatewayMode, _client, _credentials, constructed>>

NextResolver ==
    \/ \E s \in Slots : Serial(s) /\ GetCredentials(s)
    \/ \E e \in ResolverEnvInputs : SetEnv(e)

SpecResolver == InitResolver /\ [][NextResolver]_vars

(***************************************************************************)
(* domains/index.ts and utils/types.ts called directly, as                 *)
(* navigation.test.ts does: getDomainHandler, clearDomainCache,            *)
(* getAvailableDomains and isDomainName.  Calls of getDomainHandler        *)
(* overlap: each one may be suspended in its import.                       *)
(***************************************************************************)
RegistryInputs == {"devices", "organizations", "alerts", "tickets", "billing", "Devices"}

\* the handler returned, known by its domain and the tools it declares
HandlerValue(domain) == Result("Handler", FALSE, domain, getTools(domain), "")

DomainsResult(domains) == Result("Domains", FALSE, NULL, domains, "")

BooleanResult(b) == Result("Boolean", FALSE, NULL, << >>, IF b THEN "true" ELSE "false")

InitRegistry ==
    /\ currentDomain = NULL
    /\ domainCache = {}
    /\ env = NoEnv
    /\ isGatewayMode = FALSE
    /\ _client = 0
    /\ _credentials = NoCredentials
    /\ constructed = 0
    /\ reqs = [s \in Slots |-> IdleReq]

\* getDomainHandler(x) up to its await; the default case rejects at once
GetDomainHandler(s, x) ==
    /\ Free(s)
    /\ LET b == BeginGetDomainHandler(NewReq(s, "getDomainHandler", x, NoArgs), x, "registry_handler")
       IN  reqs' = [reqs EXCEPT ![s] =
                       IF b.pc = "threw" THEN Complete(b, Rejection(UnknownDomainMessage)) ELSE b]
    /\ UNCHANGED <<currentDomain, domainCache, env, isGatewayMode, _client, _credentials, constructed>>

\* after the import, or when the caller resumes with the cached handler
GetDomainHandlerResume(s) ==
    /\ reqs[s].pc = "registry_handler"
    /\ domainCache' = IF reqs[s].hit THEN domainCache ELSE CacheSet(reqs[s].dom)
    /\ reqs' = [reqs EXCEPT ![s] = Complete(@, HandlerValue(reqs[s].dom))]
    /\ UNCHANGED <<currentDomain, env, isGatewayMode, _client, _credentials, constructed>>

ClearDomainCache ==
    /\ domainCache' = {}
    /\ UNCHANGED <<currentDomain, env, isGatewayMode, _client, _credentials, constructed, reqs>>

GetAvailableDomains(s) ==
    /\ Free(s)
    /\ reqs' = [reqs EXCEPT ![s] =
            Complete(NewReq(s, "getAvailableDomains", "", NoArgs), DomainsResult(getAvailableDomains))]
    /\ UNCHANGED <<currentDomain, domainCache, env, isGatewayMode, _client, _credentials, constructed>>

IsDomainName(s, x) ==
    /\ Free(s)
    /\ reqs' = [reqs EXCEPT ![s] =
            Complete(NewReq(s, "isDomainName", x, NoArgs), BooleanResult(isDomainName(x)))]
    /\ UNCHANGED <<currentDomain, domainCache, env, isGatewayMode, _client, _credentials, constructed>>

NextRegistry ==
    \/ \E s \in Slots, x \in RegistryInputs : GetDomainHandler(s, x)
    \/ \E s \in Slots : GetDomainHandlerResume(s)
    \/ ClearDomainCache
    \/ \E s \in Slots : GetAvailableDomains(s)
    \/ \E s \in Slots, x \in RegistryInputs : IsDomainName(s, x)

SpecRegistry == InitRegistry /\ [][NextRegistry]_vars

(***************************************************************************)
(* Properties                                                              *)
(***************************************************************************)
Done(s) == reqs[s].pc = "done"

MetaTools == {"ninjaone_navigate", "ninjaone_back", "ninjaone_status"}

EnumeratedDomains == {"devices", "organizations", "alerts", "tickets"}

\* the tool names domain d's handler declares
DeclaredTools(d) == Range(getTools(d))

\* identity and secret are set and the region token is unset or, lowercased,
\* one of us, eu, oc
Resolves(e) ==
    /\ e.NINJAONE_CLIENT_ID # ""
    /\ e.NINJAONE_CLIENT_SECRET # ""
    /\ e.NINJAONE_REGION \in {"", "us", "eu", "oc", "US", "EU", "Eu", "OC"}

\* C1: a completed list-tools request returns exactly navigate and status
\* when it was received at Root, exactly back, status and the declared tools
\* of d when it was received in InDomain(d), and the navigation state is the
\* one it was received in.
C1_ListToolsByState ==
    \A s \in Slots :
        (Done(s) /\ reqs[s].op = "list") =>
            /\ reqs[s].resp.kind = "Tools"
            /\ Range(reqs[s].resp.tools) =
                  IF reqs[s].start = NULL
                  THEN {"ninjaone_navigate", "ninjaone_status"}
                  ELSE {"ninjaone_back", "ninjaone_status"} \cup DeclaredTools(reqs[s].start)
            /\ currentDomain = reqs[s].start

C1_Witness ==
    \E s \in Slots :
        /\ Done(s) /\ reqs[s].op = "list"
        /\ reqs[s].start = "alerts"
        /\ Len(reqs[s].resp.tools) = 6

\* C2: navigate(x) with x a string outside the enumerated domains returns
\* the invalid-domain error result, which depends on x alone, and leaves the
\* navigation state as it was.
C2_InvalidDomainRejected ==
    \A s \in Slots :
        (/\ Done(s) /\ reqs[s].name = "ninjaone_navigate"
         /\ reqs[s].args.defined
         /\ reqs[s].args.domain \notin EnumeratedDomains \cup {NULL}) =>
            /\ reqs[s].resp.isError
            /\ reqs[s].resp =
                  Result("InvalidDomain", TRUE, NULL,
                         <<"devices", "organizations", "alerts", "tickets">>, reqs[s].args.domain)
            /\ currentDomain = reqs[s].start

C2_Witness ==
    \E s \in Slots :
        /\ Done(s) /\ reqs[s].name = "ninjaone_navigate"
        /\ reqs[s].args.defined /\ reqs[s].args.domain = "billing"
        /\ getCredentials(reqs[s].env0) # NoCredentials
        /\ reqs[s].start = "tickets"
        /\ reqs[s].resp.isError

\* C3: navigate(d) with d enumerated, received while the credentials do not
\* resolve, returns an error result and leaves the navigation state as it was.
C3_NoCredentialsRefused ==
    \A s \in Slots :
        (/\ Done(s) /\ reqs[s].name = "ninjaone_navigate"
         /\ reqs[s].args.defined
         /\ reqs[s].args.domain \in EnumeratedDomains
         /\ ~Resolves(reqs[s].env0)) =>
            /\ reqs[s].resp.isError
            /\ currentDomain = reqs[s].start

C3_Witness ==
    \E s \in Slots :
        /\ Done(s) /\ reqs[s].name = "ninjaone_navigate"
        /\ reqs[s].args.defined /\ reqs[s].args.domain = "devices"
        /\ reqs[s].env0.NINJAONE_CLIENT_ID # ""
        /\ reqs[s].env0.NINJAONE_CLIENT_SECRET = ""
        /\ reqs[s].start = NULL
        /\ reqs[s].resp.isError
        /\ currentDomain = NULL

\* C4: navigate(d) with d enumerated, received while the credentials resolve,
\* returns the non-error confirmation that lists d's tools and leaves the
\* state at InDomain(d); a list-tools received in InDomain(d) returns exactly
\* back, status and d's tools, for tickets the six tickets tools.
C4_NavigateEntersDomain ==
    /\ \A s \in Slots :
          (/\ Done(s) /\ reqs[s].name = "ninjaone_navigate"
           /\ reqs[s].args.defined
           /\ reqs[s].args.domain \in EnumeratedDomains
           /\ Resolves(reqs[s].env0)) =>
              /\ ~reqs[s].resp.isError
              /\ reqs[s].resp.kind = "Navigated"
              /\ reqs[s].resp.domain = reqs[s].args.domain
              /\ Range(reqs[s].resp.tools) = DeclaredTools(reqs[s].args.domain)
              /\ currentDomain = reqs[s].args.domain
    /\ \A s \in Slots :
          (Done(s) /\ reqs[s].op = "list" /\ reqs[s].start = "tickets") =>
              Range(reqs[s].resp.tools) =
                 {"ninjaone_back", "ninjaone_status",
                  "ninjaone_tickets_list", "ninjaone_tickets_get", "ninjaone_tickets_create",
                  "ninjaone_tickets_update", "ninjaone_tickets_add_comment",
                  "ninjaone_tickets_comments"}

C4_Witness ==
    \E s \in Slots :
        /\ Done(s) /\ reqs[s].name = "ninjaone_navigate"
        /\ reqs[s].args.domain = "tickets"
        /\ reqs[s].start = "devices"
        /\ reqs[s].resp.kind = "Navigated"
        /\ currentDomain = "tickets"

\* C5: a completed back leaves the navigation state at Root whatever state
\* it was received in, and returns the non-error confirmation that names the
\* domain it was received in, or "root".
C5_BackToRoot ==
    \A s \in Slots :
        (Done(s) /\ reqs[s].name = "ninjaone_back") =>
            /\ currentDomain = NULL
            /\ ~reqs[s].resp.isError
            /\ reqs[s].resp.kind = "Back"
            /\ reqs[s].resp.domain = IF reqs[s].start = NULL THEN "root" ELSE reqs[s].start

C5_Witness ==
    \E s \in Slots :
        /\ Done(s) /\ reqs[s].name = "ninjaone_back"
        /\ reqs[s].start = "organizations"
        /\ currentDomain = NULL

\* a step in which slot s completes a status call
StatusCompletes(s) ==
    /\ reqs'[s] # reqs[s]
    /\ reqs'[s].pc = "done"
    /\ reqs'[s].name = "ninjaone_status"

\* C6: a status call leaves the navigation state, the client cache slot
\* (client and stored credentials), the count of constructed clients and the
\* domain handler cache unchanged, and reports the current domain and
\* whether the credentials resolve.
C6_StatusChangesNothing ==
    [][\A s \in Slots :
          StatusCompletes(s) =>
             /\ currentDomain' = currentDomain
             /\ _client' = _client
             /\ _credentials' = _credentials
             /\ constructed' = constructed
             /\ domainCache' = domainCache
             /\ reqs'[s].resp.kind = "Status"
             /\ ~reqs'[s].resp.isError
             /\ reqs'[s].resp.domain = currentDomain
             /\ (reqs'[s].resp.text # "NOT CONFIGURED") <=> Resolves(env)]_vars

C6_Witness ==
    \E s \in Slots :
        /\ Done(s) /\ reqs[s].name = "ninjaone_status"
        /\ reqs[s].start = "devices"
        /\ reqs[s].resp.domain = "devices"
        /\ reqs[s].resp.text = "https://eu.ninjarmm.com"
        /\ _client = 0
        /\ constructed = 0

\* C7: a call of a non-meta tool name received at Root, or in InDomain(d1)
\* with the name not declared by d1, returns the unknown-tool error result,
\* no handler's handleCall is invoked and no remote call is made, and the
\* navigation state is the one the call was received in.
C7_UnknownToolNoFallback ==
    \A s \in Slots :
        (/\ Done(s) /\ reqs[s].op = "call"
         /\ reqs[s].name \notin MetaTools
         /\ \/ reqs[s].start = NULL
            \/ reqs[s].name \notin DeclaredTools(reqs[s].start)) =>
            /\ reqs[s].resp.kind = "UnknownTool"
            /\ reqs[s].resp.isError
            /\ reqs[s].resp.text = reqs[s].name
            /\ reqs[s].calls = 0
            /\ reqs[s].hcall = NoCall
            /\ reqs[s].api = << >>
            /\ currentDomain = reqs[s].start

C7_Witness ==
    \E s \in Slots :
        /\ Done(s) /\ reqs[s].op = "call"
        /\ reqs[s].start = "devices"
        /\ reqs[s].name = "ninjaone_organizations_list"
        /\ reqs[s].resp.isError
        /\ currentDomain = "devices"

\* C8: a call of a tool declared by d, received in InDomain(d), invokes d's
\* handler once with the call's name and arguments (never more than once
\* while in flight), returns the result the handler returns as it is, and
\* leaves the state at InDomain(d).
C8_DispatchToHandler ==
    /\ \A s \in Slots : reqs[s].calls <= 1
    /\ \A s \in Slots :
          (/\ Done(s) /\ reqs[s].op = "call"
           /\ reqs[s].start # NULL
           /\ reqs[s].name \in DeclaredTools(reqs[s].start)) =>
              /\ reqs[s].calls = 1
              /\ reqs[s].dom = reqs[s].start
              /\ reqs[s].hcall = [name |-> reqs[s].name, args |-> reqs[s].args]
              /\ reqs[s].hout.kind \in {"HandlerResult", "Throw"}
              /\ reqs[s].hout.domain = reqs[s].start
              /\ (reqs[s].hout.kind = "HandlerResult" => reqs[s].resp = reqs[s].hout)
              /\ currentDomain = reqs[s].start

C8_Witness ==
    \E s \in Slots :
        /\ Done(s) /\ reqs[s].op = "call"
        /\ reqs[s].start = "alerts"
        /\ reqs[s].name = "ninjaone_alerts_reset_all"
        /\ reqs[s].hout.kind = "HandlerResult"
        /\ reqs[s].hout.isError
        /\ reqs[s].resp = reqs[s].hout

\* C9: when the handler's handleCall fails, the call returns an error
\* result that carries the failure's message and the navigation state stays
\* the domain the call was received in; the request received right after
\* such a failure is received in that domain, and if it names a tool of the
\* domain it reaches the handler.
C9_HandlerFailureCaught ==
    /\ \A s \in Slots :
          (Done(s) /\ reqs[s].hout.kind = "Throw") =>
              /\ reqs[s].resp.isError
              /\ reqs[s].resp.kind = "Error"
              /\ reqs[s].resp.text = reqs[s].hout.text
              /\ reqs[s].start \in EnumeratedDomains
              /\ currentDomain = reqs[s].start
    /\ \A s \in Slots :
          (reqs[s].pc # "idle" /\ reqs[s].afterThrow) =>
              /\ reqs[s].start \in EnumeratedDomains
              /\ (Done(s) /\ reqs[s].name \in DeclaredTools(reqs[s].start)) => reqs[s].calls = 1

\* a call that fails in getClient for want of credentials, right after a
\* call that failed too
C9_Witness ==
    \E s \in Slots :
        /\ Done(s)
        /\ reqs[s].afterThrow
        /\ reqs[s].hout.kind = "Throw"
        /\ reqs[s].hout.text = "No API credentials provided"
        /\ reqs[s].start = "tickets"
        /\ currentDomain = "tickets"

\* C10: every completed list-tools and call-tool request has a value of the
\* handler as its response, never an exception that left the handler.
C10_NoEscapedException ==
    \A s \in Slots : Done(s) => reqs[s].resp.kind \notin {"Exception", "none"}

\* a getClient() call that returned a client, made right after another one
\* that did
ConsecutiveGetClient(s) ==
    /\ Done(s)
    /\ reqs[s].op = "getClient"
    /\ ~reqs[s].resp.isError
    /\ reqs[s].prev.op = "getClient"
    /\ reqs[s].prev.client # 0

SameCredentials(c, d) ==
    /\ c.clientId = d.clientId
    /\ c.clientSecret = d.clientSecret
    /\ c.region = d.region

\* C11: under serialized access, of two consecutive getClient() calls the
\* second returns the very instance the first returned when identity, secret
\* and region are what they were, and an instance constructed during the
\* second call, distinct from the first one, when any of the three changed.
C11_CachedUntilCredentialsChange ==
    \A s \in Slots :
        ConsecutiveGetClient(s) =>
            IF SameCredentials(reqs[s].creds, reqs[s].prev.creds)
            THEN reqs[s].client = reqs[s].prev.client
            ELSE /\ reqs[s].client # reqs[s].prev.client
                 /\ reqs[s].client > reqs[s].seen

\* only the secret changed between the two calls, and no clearClient()
C11_Witness ==
    \E s \in Slots :
        /\ ConsecutiveGetClient(s)
        /\ reqs[s].creds.clientId = reqs[s].prev.creds.clientId
        /\ reqs[s].creds.region = reqs[s].prev.creds.region
        /\ reqs[s].creds.clientSecret # reqs[s].prev.creds.clientSecret
        /\ reqs[s].client = 2
        /\ reqs[s].prev.client = 1

\* a step in which getClient() is called in slot s
GetClientCalled(s) ==
    /\ Free(s)
    /\ reqs'[s] # reqs[s]
    /\ reqs'[s].op = "getClient"

\* C12: a getClient() call made while the environment resolves to no
\* credentials is rejected with the no-credentials error at once, returns no
\* client, constructs none, and leaves _client and _credentials as they were.
C12_RejectedGetClientKeepsCache ==
    [][\A s \in Slots :
          (GetClientCalled(s) /\ ~Resolves(env)) =>
              /\ reqs'[s].pc = "done"
              /\ reqs'[s].resp.isError
              /\ reqs'[s].resp.text = "No API credentials provided"
              /\ reqs'[s].client = 0
              /\ _client' = _client
              /\ _credentials' = _credentials
              /\ constructed' = constructed]_vars

\* a rejected call, for an unsupported region, that found a cached client
C12_Witness ==
    \E s \in Slots :
        /\ Done(s)
        /\ reqs[s].op = "getClient"
        /\ reqs[s].resp.isError
        /\ reqs[s].env0.NINJAONE_REGION = "xx"
        /\ reqs[s].env0.NINJAONE_CLIENT_ID = "a"
        /\ env = reqs[s].env0
        /\ _client = 1
        /\ _credentials # NoCredentials

\* C13: once clearClient() has returned, _client and _credentials are both
\* null whatever they held, and a getClient() call that follows it and
\* succeeds returns an instance constructed during that call, hence distinct
\* from every instance returned before, and caches it.
C13_ClearEmptiesSlot ==
    \A s \in Slots :
        /\ (Done(s) /\ reqs[s].op = "clearClient") =>
               /\ _client = 0
               /\ _credentials = NoCredentials
        /\ (Done(s) /\ reqs[s].op = "getClient" /\ ~reqs[s].resp.isError
                    /\ reqs[s].prev.op = "clearClient") =>
               /\ reqs[s].client > reqs[s].seen
               /\ reqs[s].client # reqs[s].prev.client
               /\ _client = reqs[s].client

\* clearClient() dropped a client, and the next getClient(), with the very
\* credentials the slot held, returned another one
C13_Witness ==
    \E s \in Slots :
        /\ Done(s)
        /\ reqs[s].op = "getClient"
        /\ ~reqs[s].resp.isError
        /\ reqs[s].prev.op = "clearClient"
        /\ reqs[s].prev.client = 1
        /\ reqs[s].prev.creds = reqs[s].creds
        /\ reqs[s].client = 2

\* the region tokens whose lowercase is us, eu or oc, and the unset one
SupportedTokens == {"", "us", "US", "eu", "EU", "Eu", "oc", "OC"}

MissingCredentials(e) == e.NINJAONE_CLIENT_ID = "" \/ e.NINJAONE_CLIENT_SECRET = ""

InvalidRegion(e) ==
    /\ e.NINJAONE_CLIENT_ID # ""
    /\ e.NINJAONE_CLIENT_SECRET # ""
    /\ e.NINJAONE_REGION \notin SupportedTokens

Resolved(s) == Done(s) /\ reqs[s].op = "getCredentials"

\* C14 as stated: the resolver rejects when identity or secret is empty or
\* unset, rejects when both are present and the region token is unsupported,
\* and what the caller gets in the second case differs from what it gets in
\* the first.
C14_RejectionKindsDistinct ==
    \A s \in Slots :
        Resolved(s) =>
            /\ MissingCredentials(reqs[s].env0) => reqs[s].creds = NoCredentials
            /\ InvalidRegion(reqs[s].env0) => reqs[s].creds = NoCredentials
            /\ (/\ InvalidRegion(reqs[s].env0)
                /\ reqs[s].prev.op = "getCredentials"
                /\ MissingCredentials(reqs[s].prev.env0)) => reqs[s].creds # reqs[s].prev.creds

\* C14, amended: the resolver returns null exactly when identity or secret
\* is empty or unset or, both being present, the region token is
\* unsupported; a call rejected for the one reason returns the same value as
\* a call rejected for the other.
C14_RejectsWithNull ==
    \A s \in Slots :
        Resolved(s) =>
            /\ reqs[s].creds = NoCredentials
                   <=> (MissingCredentials(reqs[s].env0) \/ InvalidRegion(reqs[s].env0))
            /\ ~reqs[s].resp.isError
            /\ (/\ InvalidRegion(reqs[s].env0)
                /\ reqs[s].prev.op = "getCredentials"
                /\ MissingCredentials(reqs[s].prev.env0)) => reqs[s].creds = reqs[s].prev.creds

\* a call with identity and secret and the region xx, right after a call
\* without secret
C14_Witness ==
    \E s \in Slots :
        /\ Resolved(s)
        /\ reqs[s].env0 = [NINJAONE_CLIENT_ID |-> "a", NINJAONE_CLIENT_SECRET |-> "s", NINJAONE_REGION |-> "xx"]
        /\ reqs[s].prev.op = "getCredentials"
        /\ reqs[s].prev.env0 = [NINJAONE_CLIENT_ID |-> "a", NINJAONE_CLIENT_SECRET |-> "", NINJAONE_REGION |-> ""]
        /\ reqs[s].creds = NoCredentials
        /\ reqs[s].prev.creds = NoCredentials

\* lowercase(t) for the supported tokens, us for the unset one
RegionOf(t) ==
    CASE t \in {"", "us", "US"} -> "us"
      [] t \in {"eu", "EU", "Eu"} -> "eu"
      [] t \in {"oc", "OC"} -> "oc"

Endpoint(region) ==
    CASE region = "us" -> "https://app.ninjarmm.com"
      [] region = "eu" -> "https://eu.ninjarmm.com"
      [] region = "oc" -> "https://oc.ninjarmm.com"

\* C15: with identity and secret non-empty, getCredentials() succeeds iff
\* the region token, lowercased, is us, eu or oc, or is unset or empty; what
\* it returns is the identity and secret of the environment as it is at that
\* call, the lowercased region (us when unset) and that region's endpoint.
C15_ResolvedRecord ==
    \A s \in Slots :
        (/\ Resolved(s)
         /\ reqs[s].env0.NINJAONE_CLIENT_ID # ""
         /\ reqs[s].env0.NINJAONE_CLIENT_SECRET # "") =>
            IF reqs[s].env0.NINJAONE_REGION \in SupportedTokens
            THEN reqs[s].creds =
                    [clientId |-> reqs[s].env0.NINJAONE_CLIENT_ID,
                     clientSecret |-> reqs[s].env0.NINJAONE_CLIENT_SECRET,
                     region |-> RegionOf(reqs[s].env0.NINJAONE_REGION),
                     baseUrl |-> Endpoint(RegionOf(reqs[s].env0.NINJAONE_REGION))]
            ELSE reqs[s].creds = NoCredentials

\* a call that read the region OC, right after one that read the region Eu
C15_Witness ==
    \E s \in Slots :
        /\ Resolved(s)
        /\ reqs[s].env0.NINJAONE_REGION = "OC"
        /\ reqs[s].creds.region = "oc"
        /\ reqs[s].creds.baseUrl = "https://oc.ninjarmm.com"
        /\ reqs[s].prev.op = "getCredentials"
        /\ reqs[s].prev.env0.NINJAONE_REGION = "Eu"
        /\ reqs[s].prev.creds.baseUrl = "https://eu.ninjarmm.com"

Loaded(s) == Done(s) /\ reqs[s].op = "getDomainHandler" /\ ~reqs[s].resp.isError

GetDomainHandlerCalled(s) ==
    /\ Free(s)
    /\ reqs'[s] # reqs[s]
    /\ reqs'[s].op = "getDomainHandler"

\* C17: a getDomainHandler(x) call with x none of the four enumerated
\* identifiers is rejected at once with an "Unknown domain" error and leaves
\* the handler cache as it was; the cache never holds such an x.
C17_UnknownDomainRejected ==
    /\ [][\A s \in Slots :
              (GetDomainHandlerCalled(s) /\ reqs'[s].name \notin EnumeratedDomains) =>
                  /\ reqs'[s].pc = "done"
                  /\ reqs'[s].resp.isError
                  /\ reqs'[s].resp.text = "Unknown domain"
                  /\ domainCache' = domainCache]_vars
    /\ [](domainCache \subseteq EnumeratedDomains)

\* getDomainHandler("billing") was rejected while another domain was cached
C17_Witness ==
    \E s \in Slots :
        /\ Done(s)
        /\ reqs[s].op = "getDomainHandler"
        /\ reqs[s].name = "billing"
        /\ reqs[s].resp.isError
        /\ domainCache = {"alerts"}

\* C18: every getAvailableDomains() call returns the sequence devices,
\* organizations, alerts, tickets; isDomainName(x) returns true exactly for
\* the x of that sequence, and getDomainHandler(x) fails with Unknown domain
\* exactly for the x outside it, by exact, case-sensitive comparison.
C18_EnumerationsAgree ==
    \A s \in Slots :
        Done(s) =>
            /\ reqs[s].op = "getAvailableDomains" =>
                   reqs[s].resp.tools = <<"devices", "organizations", "alerts", "tickets">>
            /\ reqs[s].op = "isDomainName" =>
                   (reqs[s].resp.text = "true" <=> reqs[s].name \in EnumeratedDomains)
            /\ reqs[s].op = "getDomainHandler" =>
                   ((reqs[s].resp.isError /\ reqs[s].resp.text = "Unknown domain")
                       <=> reqs[s].name \notin EnumeratedDomains)

\* isDomainName("Devices") returned false and getDomainHandler("Devices")
\* failed
C18_Witness ==
    /\ Done(1)
    /\ reqs[1].op = "isDomainName"
    /\ reqs[1].name = "Devices"
    /\ reqs[1].resp.text = "false"
    /\ Done(2)
    /\ reqs[2].op = "getDomainHandler"
    /\ reqs[2].name = "Devices"
    /\ reqs[2].resp.isError

\* C19: the tool names of two different domain handlers never coincide, no
\* domain handler declares one of the three meta-tool names, and so the
\* tools a list-tools request returns all differ in name and a call of a
\* tool the current domain declares reaches that domain's handler.
C19_ToolNamesUnique ==
    /\ \A d, e \in EnumeratedDomains :
           d # e => Range(getTools(d)) \cap Range(getTools(e)) = {}
    /\ \A d \in EnumeratedDomains :
           /\ Range(getTools(d)) \cap {navigateTool, backTool, statusTool} = {}
           /\ Cardinality(Range(getTools(d))) = Len(getTools(d))
    /\ \A s \in Slots :
           /\ (Done(s) /\ reqs[s].op = "list") =>
                  Cardinality(Range(reqs[s].resp.tools)) = Len(reqs[s].resp.tools)
           /\ (Done(s) /\ reqs[s].op = "call" /\ reqs[s].start \in EnumeratedDomains
                       /\ reqs[s].name \in Range(getTools(reqs[s].start))) =>
                  /\ reqs[s].calls = 1
                  /\ reqs[s].hcall.name = reqs[s].name

\* list-tools in the devices domain returned eight tools of eight names
C19_Witness ==
    \E s \in Slots :
        /\ Done(s)
        /\ reqs[s].op = "list"
        /\ reqs[s].start = "devices"
        /\ Len(reqs[s].resp.tools) = 8
        /\ Cardinality(Range(reqs[s].resp.tools)) = 8

\* C20: whenever no request is being processed, the navigation state is
\* Root or InDomain(d) with d one of the four enumerated domains and the
\* handler of d loaded.
C20_NavigationStateValid ==
    (\A s \in Slots : Free(s)) =>
        \/ currentDomain = NULL
        \/ /\ currentDomain \in EnumeratedDomains
           /\ currentDomain \in domainCache

\* The session as a transition function: the result of a request and the
\* navigation state after it, given the navigation state and the
\* environment the request was received in, the request, and what the
\* domain handler answered (r.hout) if it was called.
Delta(r) ==
    IF r.op = "list"
    THEN [result |-> ToolsResult(IF r.start = NULL THEN <<"ninjaone_navigate", "ninjaone_status">>
                                 ELSE <<"ninjaone_back", "ninjaone_status">> \o getTools(r.start)),
          state |-> r.start]
    ELSE IF r.name = "ninjaone_navigate"
    THEN IF ~r.args.defined
         THEN [result |-> CaughtResult("Cannot read properties of undefined"), state |-> r.start]
         ELSE IF r.args.domain \notin EnumeratedDomains
         THEN [result |-> InvalidDomainResult(r.args.domain), state |-> r.start]
         ELSE IF ~Resolves(r.env0)
         THEN [result |-> NoCredentialsResult, state |-> r.start]
         ELSE [result |-> NavigatedResult(r.args.domain), state |-> r.args.domain]
    ELSE IF r.name = "ninjaone_back"
    THEN [result |-> BackResult(r.start), state |-> NULL]
    ELSE IF r.name = "ninjaone_status"
    THEN [result |-> Result("Status", FALSE, r.start, getAvailableDomains,
                            IF Resolves(r.env0) THEN Endpoint(RegionOf(r.env0.NINJAONE_REGION))
                            ELSE "NOT CONFIGURED"),
          state |-> r.start]
    ELSE IF r.start = NULL \/ r.name \notin DeclaredTools(r.start)
    THEN [result |-> UnknownToolResult(r.start, r.name), state |-> r.start]
    ELSE [result |-> IF r.hout.kind = "HandlerResult" THEN r.hout ELSE CaughtResult(r.hout.text),
          state |-> r.start]

\* C21: with requests processed one at a time, the result of every request
\* and the navigation state after it are the values of one function of the
\* navigation state before it, the request, the credential environment and
\* the handler's response; nothing else the process holds (handler cache,
\* client cache) has a part in them.  Two runs from Root fed the same
\* requests, environments and handler responses therefore agree step by step.
C21_Deterministic ==
    \A s \in Slots :
        (Done(s) /\ reqs[s].op \in {"list", "call"}) =>
            /\ reqs[s].resp = Delta(reqs[s]).result
            /\ currentDomain = Delta(reqs[s]).state

\* a navigate answered from the handler cache, after the credentials
\* changed and a second client was constructed
C21_Witness ==
    \E s \in Slots :
        /\ Done(s)
        /\ reqs[s].name = "ninjaone_navigate"
        /\ reqs[s].start = "alerts"
        /\ reqs[s].hit
        /\ reqs[s].resp = NavigatedResult("alerts")
        /\ constructed = 2
        /\ currentDomain = "alerts"

\* a step in which the request listener receives an /mcp request in slot s
McpReceived(s) ==
    /\ Vacant(s)
    /\ reqs'[s] # reqs[s]
    /\ reqs'[s].op = "http"
    /\ reqs'[s].path = "/mcp"

ResetAllDone(s) ==
    /\ Done(s)
    /\ reqs[s].op = "call"
    /\ reqs[s].start = "alerts"
    /\ reqs[s].name = "ninjaone_alerts_reset_all"
    /\ reqs[s].args.defined

\* C24: ninjaone_alerts_reset_all with neither device_id nor
\* organization_id returns isError = true and makes no call of the remote
\* API; with a device_id, and the handler holding a client, it makes the one
\* call resetByDevice, whether an organization_id is given too or not; with
\* an organization_id alone it makes the one call resetByOrganization.
C24_ResetAllByDeviceOrOrganization ==
    \A s \in Slots :
        ResetAllDone(s) =>
            IF reqs[s].args.device_id = 0 /\ reqs[s].args.organization_id = 0
            THEN /\ reqs[s].resp.isError
                 /\ reqs[s].api = << >>
            ELSE IF ~Resolves(reqs[s].env0)
            THEN reqs[s].api = << >>
            ELSE IF reqs[s].args.device_id # 0
            THEN reqs[s].api = <<"alerts.resetByDevice">>
            ELSE reqs[s].api = <<"alerts.resetByOrganization">>

\* device_id and organization_id both given: reset by device, answered
C24_Witness ==
    \E s \in Slots :
        /\ ResetAllDone(s)
        /\ reqs[s].args.device_id = 7
        /\ reqs[s].args.organization_id = 3
        /\ reqs[s].api = <<"alerts.resetByDevice">>
        /\ ~reqs[s].resp.isError

\* C25: when requests overlap, a call of a tool of d1 received in
\* InDomain(d1) is carried out by d1's handler whatever the navigation state
\* has become in the meantime: the handler is the one of the domain read
\* when the request was received, and nothing is checked again before its
\* switch runs.
C25_DispatchKeepsDomainRead ==
    \A s \in Slots :
        (/\ Done(s)
         /\ reqs[s].op = "call"
         /\ reqs[s].start # NULL
         /\ reqs[s].name \in DeclaredTools(reqs[s].start)) =>
            /\ reqs[s].calls = 1
            /\ reqs[s].dom = reqs[s].start
            /\ reqs[s].hout.kind = "HandlerResult"
            /\ reqs[s].hout.domain = reqs[s].start
            /\ reqs[s].resp = reqs[s].hout

\* a devices tool, received in the devices domain, was run by the devices
\* handler with the session already in the alerts domain, where a
\* navigate received after it had put it
C25_Witness ==
    \E s, t \in Slots :
        /\ Done(s)
        /\ reqs[s].name = "ninjaone_devices_list"
        /\ reqs[s].start = "devices"
        /\ reqs[s].ranIn = "alerts"
        /\ reqs[s].api = <<"ninjaone_devices_list">>
        /\ ~reqs[s].resp.isError
        /\ Done(t)
        /\ reqs[t].name = "ninjaone_navigate"
        /\ reqs[t].start = "devices"
        /\ reqs[t].resp = NavigatedResult("alerts")
        /\ currentDomain = "alerts"


(***************************************************************************)
(* C26: overlapping first-time getClient() calls                           *)
(***************************************************************************)
\* a step in which clearClient() is called in slot s
ClearClientCalled(s) ==
    /\ Free(s)
    /\ reqs'[s] # reqs[s]
    /\ reqs'[s].op = "clearClient"

\* a step in which the getClient() call of slot s resumes after its import
ImportResumes(s) ==
    /\ reqs[s].pc = "client_import"
    /\ reqs[s].op = "getClient"
    /\ reqs'[s].pc = "client_ready"

\* C26: a getClient() call that observed an empty slot constructs a client
\* of its own when it resumes and writes it into the slot whatever another
\* call wrote there meanwhile, so two overlapping first-time calls with the
\* same credentials can construct two clients; the slot holds at most one
\* client, the one constructed last, it is emptied only by clearClient() or
\* by a getClient() call that resolves other credentials, and a getClient()
\* call made while no other call is in flight and the slot holds a client
\* with the credentials the call resolves returns that client and
\* constructs none.
C26_LastConstructionWins ==
    /\ [](_client \in {0, constructed})
    /\ [][\A s \in Slots :
             /\ ImportResumes(s) =>
                    /\ constructed' = constructed + 1
                    /\ reqs'[s].client = constructed'
                    /\ _client' = constructed'
             /\ (_client # 0 /\ _client' = 0) =>
                    \E t \in Slots :
                        \/ ClearClientCalled(t)
                        \/ /\ GetClientCalled(t)
                           /\ ~SameCredentials(getCredentials(env), _credentials)
             /\ ( /\ GetClientCalled(s)
                  /\ \A t \in Slots : Free(t)
                  /\ _client # 0
                  /\ Resolves(env)
                  /\ SameCredentials(getCredentials(env), _credentials) ) =>
                    /\ reqs'[s].pc = "client_ready"
                    /\ reqs'[s].client = _client
                    /\ _client' = _client
                    /\ constructed' = constructed]_vars

\* two calls with the same credentials were both made before any client
\* existed, each returned a client of its own, and the slot holds the second
C26_Witness ==
    \E s, t \in Slots :
        /\ s # t
        /\ Done(s) /\ reqs[s].op = "getClient" /\ ~reqs[s].resp.isError
        /\ Done(t) /\ reqs[t].op = "getClient" /\ ~reqs[t].resp.isError
        /\ reqs[s].seen = 0
        /\ reqs[t].seen = 0
        /\ SameCredentials(reqs[s].creds, reqs[t].creds)
        /\ reqs[s].client = 1
        /\ reqs[t].client = 2
        /\ _client = 2
        /\ SameCredentials(_credentials, reqs[t].creds)


(***************************************************************************)
(* C27: the slot's credentials are those of its client                     *)
(***************************************************************************)
\* slot s holds a getClient() call between its receipt and its return
GetClientPending(s) ==
    /\ reqs[s].op = "getClient"
    /\ reqs[s].pc \in {"client_import", "client_ready"}

\* C27: whatever the interleaving of getClient() and clearClient() calls and
\* of credential changes, a client enters the slot only when a getClient()
\* call constructs it, together with the credentials that call resolved and
\* constructed it with; the stored credentials do not change while that
\* client stays in the slot; and a getClient() call returns either the
\* client it constructed from the credentials it resolved, or the slot's
\* client when the stored credentials equal (identity, secret, region) the
\* ones it resolved.
C27_SlotCredentialsMatchClient ==
    /\ [](_client # 0 => _credentials # NoCredentials)
    /\ [][/\ (_client' # 0 /\ _client' # _client) =>
                \E s \in Slots :
                    /\ ImportResumes(s)
                    /\ reqs'[s].client = _client'
                    /\ reqs'[s].creds = getCredentials(reqs[s].env0)
                    /\ SameCredentials(_credentials', reqs'[s].creds)
          /\ (_client # 0 /\ _client' = _client) => _credentials' = _credentials
          /\ \A s \in Slots :
                /\ (GetClientCalled(s) /\ reqs'[s].pc = "client_ready") =>
                       /\ reqs'[s].client = _client
                       /\ _client # 0
                       /\ reqs'[s].creds = getCredentials(env)
                       /\ SameCredentials(_credentials, reqs'[s].creds)
                /\ (GetClientPending(s) /\ reqs'[s] # reqs[s]) =>
                       /\ reqs'[s].creds = reqs[s].creds
                       /\ reqs[s].pc = "client_ready" =>
                              /\ reqs'[s].pc = "done"
                              /\ ~reqs'[s].resp.isError
                              /\ reqs'[s].client = reqs[s].client]_vars

\* two overlapping calls resolved different secrets; the one that resolved
\* "t" constructed first, the one that resolved "s" constructed second, and
\* the slot holds the second client with the credentials of its own call
C27_Witness ==
    \E s, t \in Slots :
        /\ s # t
        /\ Done(s) /\ reqs[s].op = "getClient" /\ ~reqs[s].resp.isError
        /\ Done(t) /\ reqs[t].op = "getClient" /\ ~reqs[t].resp.isError
        /\ reqs[s].seen = 0
        /\ reqs[t].seen = 0
        /\ reqs[s].creds.clientSecret = "s"
        /\ reqs[t].creds.clientSecret = "t"
        /\ reqs[t].client = 1
        /\ reqs[s].client = 2
        /\ _client = 2
        /\ _credentials = reqs[s].creds
        /\ env.NINJAONE_CLIENT_SECRET = "t"


(***************************************************************************)
(* C28: gateway mode, the credentials a tool call resolves                 *)
(***************************************************************************)
\* what getCredentials makes of the three headers of a request taken alone
HeaderCredentials(h) ==
    getCredentials([NINJAONE_CLIENT_ID |-> h.clientId,
                    NINJAONE_CLIENT_SECRET |-> h.clientSecret,
                    NINJAONE_REGION |-> h.region])

\* the tool call of slot s came in an /mcp request and its handler has
\* called getClient
ResolvedForRequest(s) ==
    /\ reqs[s].op = "call"
    /\ reqs[s].path = "/mcp"
    /\ reqs[s].calls > 0

\* C28: in gateway mode the credentials resolved for the tool call of an
\* /mcp request are those of that request's own headers: its identity, its
\* secret, and its X-Ninja-Region or us when the request has none, whatever
\* other requests arrived before it or in between.
C28_GatewayCredentialsAreRequestsOwn ==
    \A s \in Slots :
        ResolvedForRequest(s) => reqs[s].creds = HeaderCredentials(reqs[s].headers)


(***************************************************************************)
(* C29: a navigate call that fails                                         *)
(***************************************************************************)
\* C29: a ninjaone_navigate call that returned a result with isError = true
\* left the navigation state as it was when the call was received, also
\* when the domain is valid and loading its handler failed.
C29_FailedNavigateKeepsState ==
    \A s \in Slots :
        ( /\ Done(s)
          /\ reqs[s].op = "call"
          /\ reqs[s].name = navigateTool
          /\ reqs[s].resp.isError ) => currentDomain = reqs[s].start


(***************************************************************************)
(* C30: the tool names call-tool accepts                                   *)
(***************************************************************************)
\* the names call-tool interprets in navigation state cd
AcceptedNames(cd) ==
    {navigateTool, backTool, statusTool} \cup
        (IF cd = NULL THEN {} ELSE Range(getTools(cd)))

\* C30: the three meta-tool names are interpreted in every state, whatever
\* list-tools advertises there: a ninjaone_navigate call naming a valid
\* domain d2, received with credentials present, succeeds and leaves the
\* session in d2 also when it was received in another domain, with no back
\* in between; a ninjaone_back call succeeds and leaves the session at the
\* root also when it was received at the root; a call-tool request is
\* answered "unknown tool" exactly when its name is neither navigate, back,
\* status nor a tool of the domain it was received in; and every name
\* list-tools returned is one of those accepted names, which include a meta
\* tool it did not return.
C30_MetaToolsInEveryState ==
    \A s \in Slots :
        /\ (Done(s) /\ reqs[s].op = "call") =>
               /\ ( /\ reqs[s].name = navigateTool
                    /\ reqs[s].args.defined
                    /\ isDomainName(reqs[s].args.domain)
                    /\ Resolves(reqs[s].env0) ) =>
                       /\ ~reqs[s].resp.isError
                       /\ currentDomain = reqs[s].args.domain
               /\ reqs[s].name = backTool =>
                       /\ ~reqs[s].resp.isError
                       /\ currentDomain = NULL
               /\ reqs[s].name = statusTool => ~reqs[s].resp.isError
               /\ reqs[s].resp.kind = "UnknownTool" <=>
                       reqs[s].name \notin AcceptedNames(reqs[s].start)
        /\ (Done(s) /\ reqs[s].op = "list" /\ ~reqs[s].resp.isError) =>
               /\ Range(reqs[s].resp.tools) \subseteq AcceptedNames(reqs[s].start)
               /\ Range(reqs[s].resp.tools) # AcceptedNames(reqs[s].start)

\* a navigate call received in devices, where list-tools does not advertise
\* ninjaone_navigate, moved the session to alerts
C30_Witness ==
    \E s \in Slots :
        /\ Done(s)
        /\ reqs[s].op = "call"
        /\ reqs[s].name = navigateTool
        /\ reqs[s].start = "devices"
        /\ navigateTool \notin Range(getToolsForState(reqs[s].start))
        /\ reqs[s].args.domain = "alerts"
        /\ ~reqs[s].resp.isError
        /\ currentDomain = "alerts"

====
